---- MODULE Spec2Model ----
(***************************************************************************)
(* Sharded vector / metadata store of the RAG service.                     *)
(*                                                                         *)
(*   src/document_manager.py  DocumentManager  (daily FAISS shards, lock)  *)
(*   src/database.py          MetadataDB       (sqlite tables, own lock)   *)
(*   src/rag_api.py           cleanup_job, manual_cleanup (sweep triggers) *)
(*   src/query_engine.py      QueryEngine      (rerank, response)          *)
(*                                                                         *)
(* Request threads run add_document, search_user_documents, get_user_stats *)
(* and cleanup_stale_data; the scheduler thread runs cleanup_job.  Every   *)
(* MetadataDB method holds MetadataDB.lock for its whole body, so each is  *)
(* one atomic step here; DocumentManager.lock is modelled explicitly.      *)
(*                                                                         *)
(* The CREATE TABLE statement of vector_metadata carries two inline INDEX  *)
(* clauses; the model keeps the table's columns and the fact that no       *)
(* column other than the autoincrement id is declared unique.              *)
(***************************************************************************)
EXTENDS Integers, Sequences, FiniteSets, TLC

\* ------------------------------------------------------------------ bounds
\* add_document calls started over a run
MaxCalls == 2
\* last day the clock reaches (day 0 is the first day)
MaxDay == 4

\* ------------------------------------------------------------ environment
Users == {"u1", "u2"}
\* the server's worker threads, in the order a request is handed to the
\* first idle one (workers are interchangeable), and the scheduler's thread
Workers == <<"t1", "t2">>
RequestThreads == { Workers[i] : i \in 1..Len(Workers) }
Scheduler == "timer"
Threads == RequestThreads \cup {Scheduler}
NoThread == "none"

\* document_text is represented by the chunk list text_splitter.split_text
\* returns for it (the splitter is a library call)
Documents ==
    { [name |-> "empty.txt", text |-> << >>],
      [name |-> "b.txt",     text |-> <<"y", "z">>] }

\* retention_days of the scheduled job, and the values a manual call passes
DefaultRetention == 3
RetentionChoices == {1, DefaultRetention}

\* the tenants that ask for their statistics
StatsUsers == {"u1"}

\* the queries and top_k values of search_user_documents calls
Queries == {"q"}
TopKChoices == {2}

\* ------------------------------------------------------------------ clock
\* datetime.strftime("%Y%m%d") of day ordinal o, day 0 being 2025-01-30; the
\* strings have fixed width, so their lexicographic order is the numeric order
\* of these numbers.  Valid from 2025-01-01 to 2025-02-28.
Strftime(o) ==
    LET d == 30 + o
    IN  IF d <= 31 THEN 20250100 + d ELSE 20250200 + (d - 31)

\* DocumentManager._get_shard_date
GetShardDateYesterday(now) == Strftime(now - 1)

GetShardDate(now) == Strftime(now)

\* (datetime.now() - timedelta(days=retention_days)).strftime("%Y%m%d")
CutoffDate(now, retention_days) == Strftime(now - retention_days)

\* DocumentManager._get_index_path
GetIndexPath(shard_date) == [dir |-> "data", shard |-> shard_date]

VARIABLES
    today,            \* day ordinal of datetime.now()
    lock,             \* holder of DocumentManager.lock, or NoThread
    pc,               \* position of each thread
    frame,            \* local variables of each thread's running call
    files,            \* the data directory: path -> index file
    index_shards,     \* table index_shards: shard_date -> row
    vector_metadata,  \* table vector_metadata: set of rows
    next_id,          \* AUTOINCREMENT counter of vector_metadata.id
    calls,            \* add_document calls started so far
    last,             \* history: the add_document call that finished last
    assigned          \* history: per shard, the id range each add_document
                      \* call wrote to vector_metadata, in commit order

vars == <<today, lock, pc, frame, files, index_shards, vector_metadata,
          next_id, calls, last, assigned>>

IdleFrame == [op |-> "none"]
NoCall == [outcome |-> "none"]

\* ----------------------------------------------------------- collaborators
\* OpenAI embeddings.create: one vector per text, same order.  The chunks "y"
\* and "z" lie at nearly the same distance from the query "q", "y" the nearer.
EmbedText(chunk) ==
    CASE chunk = "q" -> 0
      [] chunk = "y" -> 120
      [] chunk = "z" -> 121
      [] OTHER -> 200

GetEmbeddings(texts) == [i \in 1..Len(texts) |-> EmbedText(texts[i])]

\* ------------------------------------------------------------- MetadataDB
\* register_shard: INSERT OR REPLACE INTO index_shards
RegisterShard(shards, shard_date, index_path, vector_count) ==
    [d \in (DOMAIN shards) \cup {shard_date} |->
        IF d = shard_date
        THEN [shard_date |-> shard_date, index_path |-> index_path,
              vector_count |-> vector_count]
        ELSE shards[d]]

\* add_vectors: one INSERT per element of vectors_data, then one commit
AddVectorsReplacing(table, first_id, user_id, shard_date, vectors_data) ==
    { r \in table :
        ~(/\ r.shard_date = shard_date
          /\ \E i \in 1..Len(vectors_data) :
                r.vector_id = vectors_data[i].vector_id) }
    \cup
    { [id |-> first_id + i - 1,
       vector_id |-> vectors_data[i].vector_id,
       user_id |-> user_id,
       shard_date |-> shard_date,
       document_name |-> vectors_data[i].document_name,
       page_number |-> vectors_data[i].page_number,
       chunk_index |-> vectors_data[i].chunk_index,
       page_content |-> vectors_data[i].page_content ] : i \in 1..Len(vectors_data) }

AddVectors(table, first_id, user_id, shard_date, vectors_data) ==
    table \cup
    { [id |-> first_id + i - 1,
       vector_id |-> vectors_data[i].vector_id,
       user_id |-> user_id,
       shard_date |-> shard_date,
       document_name |-> vectors_data[i].document_name,
       page_number |-> vectors_data[i].page_number,
       chunk_index |-> vectors_data[i].chunk_index,
       page_content |-> vectors_data[i].page_content ] : i \in 1..Len(vectors_data) }

\* the rows get_vector_metadata selects (WHERE user_id, shard_date, vector_id IN)
SelectVectorMetadataAnyUser(table, user_id, vector_ids, shard_date) ==
    { r \in table : /\ r.shard_date = shard_date
                    /\ r.vector_id \in vector_ids }

SelectVectorMetadataAnyShard(table, user_id, vector_ids, shard_date) ==
    { r \in table : /\ r.user_id = user_id
                    /\ r.vector_id \in vector_ids }

SelectVectorMetadata(table, user_id, vector_ids, shard_date) ==
    { r \in table : /\ r.user_id = user_id
                    /\ r.shard_date = shard_date
                    /\ r.vector_id \in vector_ids }

\* the shard dates of a set, newest first (ORDER BY shard_date DESC)
RECURSIVE NewestFirst(_)
NewestFirst(dates) ==
    IF dates = {} THEN << >>
    ELSE LET newest == CHOOSE d \in dates : \A e \in dates : e <= d
         IN  <<newest>> \o NewestFirst(dates \ {newest})

\* get_active_shards: rows WHERE shard_date >= cutoff ORDER BY shard_date DESC
GetActiveShardsNewerOnly(shards, now, retention_days) ==
    LET cutoff_date == CutoffDate(now, retention_days)
        dates == NewestFirst({ d \in DOMAIN shards : d > cutoff_date })
    IN  [i \in 1..Len(dates) |-> shards[dates[i]]]

GetActiveShardsAll(shards, now, retention_days) ==
    LET dates == NewestFirst(DOMAIN shards)
    IN  [i \in 1..Len(dates) |-> shards[dates[i]]]

GetActiveShards(shards, now, retention_days) ==
    LET cutoff_date == CutoffDate(now, retention_days)
        dates == NewestFirst({ d \in DOMAIN shards : d >= cutoff_date })
    IN  [i \in 1..Len(dates) |-> shards[dates[i]]]

\* delete_stale_data: SELECT shard_date, index_path ... WHERE shard_date < ?
StaleShards(shards, cutoff_date) ==
    { [shard_date |-> d, index_path |-> shards[d].index_path] :
        d \in { e \in DOMAIN shards : e < cutoff_date } }

\* delete_stale_data: DELETE FROM vector_metadata WHERE shard_date < ?
DeleteStaleMetadataInclusive(table, cutoff_date) ==
    { r \in table : ~(r.shard_date <= cutoff_date) }

DeleteStaleMetadataKeepAll(table, cutoff_date) == table

DeleteStaleMetadata(table, cutoff_date) ==
    { r \in table : ~(r.shard_date < cutoff_date) }

\* delete_stale_data: DELETE FROM index_shards WHERE shard_date < ?
DeleteStaleShardsInclusive(shards, cutoff_date) ==
    [d \in { e \in DOMAIN shards : ~(e <= cutoff_date) } |-> shards[d]]

DeleteStaleShards(shards, cutoff_date) ==
    [d \in { e \in DOMAIN shards : ~(e < cutoff_date) } |-> shards[d]]

\* ---------------------------------------------------------------- initial
Init ==
    /\ today = 0
    /\ lock = NoThread
    /\ pc = [t \in Threads |-> "idle"]
    /\ frame = [t \in Threads |-> IdleFrame]
    /\ files = << >>
    /\ index_shards = << >>
    /\ vector_metadata = {}
    /\ next_id = 1
    /\ calls = 0
    /\ last = NoCall
    /\ assigned = << >>

\* ----------------------------------------------------------- FAISS index
\* An index file is [readable, vectors]; vectors[i] is the vector with id i-1
\* (IndexFlatL2 numbers vectors sequentially from 0).
IndexFile(index) == [readable |-> TRUE, vectors |-> index]
TruncatedFile == [readable |-> FALSE, vectors |-> << >>]

\* os.path.exists
PathExists(fs, path) == path \in DOMAIN fs

\* faiss.write_index / a write that stops midway
WriteFile(fs, path, content) ==
    [p \in (DOMAIN fs) \cup {path} |-> IF p = path THEN content ELSE fs[p]]

\* os.remove
RemoveFile(fs, path) == [p \in (DOMAIN fs) \ {path} |-> fs[p]]

\* index.ntotal
NTotal(index) == Len(index)

\* index.add(embeddings)
IndexAdd(index, embeddings) == index \o embeddings

\* squared Euclidean distance of IndexFlatL2 (vectors have one coordinate)
L2Distance(v, q) == (v - q) * (v - q)

\* the ids of `ids` by increasing distance to q, ties by increasing id
RECURSIVE NearestFirst(_, _, _)
NearestFirst(index, q, ids) ==
    IF ids = {} THEN << >>
    ELSE LET best == CHOOSE i \in ids : \A j \in ids :
                        \/ L2Distance(index[i + 1], q) < L2Distance(index[j + 1], q)
                        \/ /\ L2Distance(index[i + 1], q) = L2Distance(index[j + 1], q)
                           /\ i <= j
         IN  <<[id |-> best, distance |-> L2Distance(index[best + 1], q)]>>
                \o NearestFirst(index, q, ids \ {best})

\* the distance index.search reports where it has no vector to report: the
\* largest float, standing here above every distance between two vectors
FloatMax == 2147483647

\* index.search(q, k): exactly k entries, the nearest first; when the index
\* holds fewer than k vectors the rest have id -1
IndexSearch(index, q, k) ==
    LET found == NearestFirst(index, q, 0..(NTotal(index) - 1))
    IN  [i \in 1..k |-> IF i <= Len(found) THEN found[i]
                        ELSE [id |-> -1, distance |-> FloatMax]]

\* ------------------------------------------------------- DocumentManager
\* the vectors_data list add_document builds (page_numbers is None: page 0)
VectorsData(chunks, current_count, document_name) ==
    [i \in 1..Len(chunks) |->
        [vector_id |-> current_count + (i - 1),
         document_name |-> document_name,
         page_number |-> 0,
         chunk_index |-> i - 1,
         page_content |-> chunks[i]]]

\* a call reaches its return statement, or an exception leaves its body; the
\* lock is still held (the `with` block is left in Exit)
Return(t, result) ==
    /\ pc' = [pc EXCEPT ![t] = "return"]
    /\ frame' = [frame EXCEPT ![t] =
                    [k \in (DOMAIN frame[t]) \cup {"result"} |->
                        IF k = "result" THEN result ELSE frame[t][k]]]

Raise(error) == [kind |-> "raise", error |-> error]

\* history: call number seq of tenant user_id wrote the ids of vectors_data
\* into shard_date
Assign(hist, shard_date, seq, user_id, vectors_data) ==
    LET entry == [seq |-> seq, user_id |-> user_id,
                  ids |-> [i \in 1..Len(vectors_data) |->
                              vectors_data[i].vector_id]]
    IN  [d \in (DOMAIN hist) \cup {shard_date} |->
            IF d = shard_date
            THEN (IF d \in DOMAIN hist THEN hist[d] ELSE << >>) \o <<entry>>
            ELSE hist[d]]

\* history: the rows of one upload (tenant, document) in one shard
UploadRows(table, user_id, document_name, shard_date) ==
    { r \in table : /\ r.user_id = user_id
                    /\ r.document_name = document_name
                    /\ r.shard_date = shard_date }

\* a call starts on thread t: the scheduler's own thread, or the first idle
\* worker
Starts(t) ==
    /\ pc[t] = "idle"
    /\ \A i \in 1..Len(Workers), j \in 1..Len(Workers) :
          (Workers[j] = t /\ i < j) => pc[Workers[i]] # "idle"

\* a call that takes no lock starts on the last idle worker, so that the
\* first one stays free for the calls that do
StartsUnlocked(t) ==
    /\ pc[t] = "idle"
    /\ \A i \in 1..Len(Workers), j \in 1..Len(Workers) :
          (Workers[i] = t /\ i < j) => pc[Workers[j]] # "idle"

\* threading.Lock: `with self.lock` is entered only when nobody holds it
LockAlwaysFree == TRUE

LockIsFree == lock = NoThread

\* add_document: `with self.lock` is entered
AddDocumentEnter(t, user_id, doc) ==
    /\ Starts(t)
    /\ LockIsFree
    /\ calls < MaxCalls
    /\ lock' = t
    /\ calls' = calls + 1
    /\ pc' = [pc EXCEPT ![t] = "add_embed"]
    /\ frame' = [frame EXCEPT ![t] =
          [op |-> "add", seq |-> calls + 1, user_id |-> user_id,
           document_name |-> doc.name, chunks |-> doc.text,
           shard_date |-> 0, index |-> << >>, vectors_data |-> << >>,
           table_before |-> vector_metadata,
           retry_of |-> IF /\ last.outcome = "persist_failed"
                           /\ last.seq = calls
                           /\ last.user_id = user_id
                           /\ last.document_name = doc.name
                        THEN last ELSE NoCall]]
    /\ last' = NoCall
    /\ UNCHANGED <<today, files, index_shards, vector_metadata, next_id,
                   assigned>>

\* add_document: split_text, the empty check and _get_embeddings
AddDocumentEmbedUnchecked(t) ==
    /\ pc[t] = "add_embed"
    /\ \/ /\ pc' = [pc EXCEPT ![t] = "add_index"]
          /\ UNCHANGED frame
       \/ Return(t, Raise("UpstreamError"))
    /\ UNCHANGED <<today, lock, files, index_shards, vector_metadata, next_id,
                   calls, last, assigned>>

AddDocumentEmbed(t) ==
    /\ pc[t] = "add_embed"
    /\ \/ /\ frame[t].chunks = << >>
          /\ Return(t, [kind |-> "return", success |-> FALSE,
                        chunks_processed |-> 0])
       \/ /\ frame[t].chunks # << >>
          /\ pc' = [pc EXCEPT ![t] = "add_index"]
          /\ UNCHANGED frame
       \/ /\ frame[t].chunks # << >>
          /\ Return(t, Raise("UpstreamError"))
    /\ UNCHANGED <<today, lock, files, index_shards, vector_metadata, next_id,
                   calls, last, assigned>>

\* add_document: _get_shard_date, _load_or_create_index, index.add, the
\* vectors_data loop and metadata_db.add_vectors
AddDocumentIndex(t) ==
    LET shard_date == GetShardDate(today)
        index_path == GetIndexPath(shard_date)
        f == frame[t]
        exists == PathExists(files, index_path)
        index == IF exists THEN files[index_path].vectors
                 ELSE << >>
        current_count == NTotal(index)
        vectors_data == VectorsData(f.chunks, current_count, f.document_name)
    IN
    /\ pc[t] = "add_index"
    /\ \/ /\ exists => files[index_path].readable
          /\ index_shards' =
                IF exists THEN index_shards
                ELSE RegisterShard(index_shards, shard_date, index_path, 0)
          /\ vector_metadata' = AddVectors(vector_metadata, next_id, f.user_id,
                                           shard_date, vectors_data)
          /\ next_id' = next_id + Len(vectors_data)
          /\ frame' = [frame EXCEPT ![t] =
                [f EXCEPT !.shard_date = shard_date,
                          !.index = IndexAdd(index, GetEmbeddings(f.chunks)),
                          !.vectors_data = vectors_data]]
          /\ assigned' = Assign(assigned, shard_date, f.seq, f.user_id,
                                   vectors_data)
          /\ pc' = [pc EXCEPT ![t] = "add_save"]
       \/ \* faiss.read_index raises on a file it cannot read
          /\ exists
          /\ ~files[index_path].readable
          /\ Return(t, Raise("StorageError"))
          /\ UNCHANGED <<index_shards, vector_metadata, next_id, assigned>>
    /\ UNCHANGED <<today, lock, files, calls, last>>

\* add_document: _save_index (faiss.write_index, register_shard) and the
\* return statement
AddDocumentSave(t) ==
    LET f == frame[t]
        index_path == GetIndexPath(f.shard_date)
    IN
    /\ pc[t] = "add_save"
    /\ \/ /\ files' = WriteFile(files, index_path, IndexFile(f.index))
          /\ index_shards' = RegisterShard(index_shards, f.shard_date,
                                           index_path, NTotal(f.index))
          /\ Return(t, [kind |-> "return", success |-> TRUE,
                        chunks_processed |-> Len(f.chunks),
                        shard_date |-> f.shard_date,
                        total_vectors_in_shard |-> NTotal(f.index)])
       \/ \* write_index cannot open the file
          /\ Return(t, [kind |-> "raise", error |-> "StorageError",
                        at |-> "persist", truncated |-> FALSE])
          /\ UNCHANGED <<files, index_shards>>
       \/ \* write_index stops after it truncated the file
          /\ files' = WriteFile(files, index_path, TruncatedFile)
          /\ Return(t, [kind |-> "raise", error |-> "StorageError",
                        at |-> "persist", truncated |-> TRUE])
          /\ UNCHANGED index_shards
    /\ UNCHANGED <<today, lock, vector_metadata, next_id, calls, last,
                   assigned>>

\* history: what a caller who retries needs to know of the call that failed
FailedCall(f) ==
    IF /\ f.op = "add"
       /\ f.result.kind = "raise"
       /\ f.result.error = "StorageError"
       /\ f.shard_date # 0
       /\ f.vectors_data # << >>
    THEN [outcome |-> "persist_failed", seq |-> f.seq, user_id |-> f.user_id,
          document_name |-> f.document_name, shard_date |-> f.shard_date,
          truncated |-> f.result.truncated,
          pre_rows |-> Cardinality(UploadRows(f.table_before, f.user_id,
                                   f.document_name, f.shard_date))]
    ELSE NoCall

\* the call ends; a `with self.lock` block is left on return and on exception
\* alike, and get_user_stats holds no lock
ExitHoldingOnRaise(t) ==
    /\ pc[t] = "return"
    /\ lock' = IF lock = t /\ frame[t].result.kind = "return"
               THEN NoThread ELSE lock
    /\ pc' = [pc EXCEPT ![t] = "idle"]
    /\ frame' = [frame EXCEPT ![t] = IdleFrame]
    /\ last' = IF frame[t].op = "add" THEN FailedCall(frame[t]) ELSE last
    /\ UNCHANGED <<today, files, index_shards, vector_metadata, next_id, calls,
                   assigned>>

Exit(t) ==
    /\ pc[t] = "return"
    /\ lock' = IF lock = t THEN NoThread ELSE lock
    /\ pc' = [pc EXCEPT ![t] = "idle"]
    /\ frame' = [frame EXCEPT ![t] = IdleFrame]
    /\ last' = IF frame[t].op = "add" THEN FailedCall(frame[t]) ELSE last
    /\ UNCHANGED <<today, files, index_shards, vector_metadata, next_id, calls,
                   assigned>>

AddDocument(t) ==
    \/ \E user_id \in Users, doc \in Documents : AddDocumentEnter(t, user_id, doc)
    \/ AddDocumentEmbed(t)
    \/ AddDocumentIndex(t)
    \/ AddDocumentSave(t)

\* cleanup_stale_data (called by manual_cleanup with the caller's
\* retention_days, by cleanup_job with 3): `with self.lock` is entered
CleanupEnter(t, retention_days) ==
    /\ Starts(t)
    /\ LockIsFree
    /\ lock' = t
    /\ pc' = [pc EXCEPT ![t] = "sweep_txn"]
    /\ frame' = [frame EXCEPT ![t] =
          [op |-> "cleanup", retention_days |-> retention_days,
           now |-> 0, cutoff_date |-> 0, stale_shards |-> {}, to_remove |-> {},
           deleted_vectors |-> 0, deleted_shards |-> 0]]
    /\ UNCHANGED <<today, files, index_shards, vector_metadata, next_id, calls,
                   last, assigned>>

\* the dict delete_stale_data returns
CleanupResult(f) ==
    [kind |-> "return", deleted_vectors |-> f.deleted_vectors,
     deleted_shards |-> f.deleted_shards,
     deleted_files |-> Cardinality(f.stale_shards)]

\* delete_stale_data: the cutoff and the transaction (select, two deletes,
\* commit); with nothing stale the file loop is empty and the call returns
DeleteStaleTxn(t) ==
    LET cutoff_date == CutoffDate(today, frame[t].retention_days)
        stale_shards == StaleShards(index_shards, cutoff_date)
        table == DeleteStaleMetadata(vector_metadata, cutoff_date)
        shards == DeleteStaleShards(index_shards, cutoff_date)
        f == [frame[t] EXCEPT
                !.now = today,
                !.cutoff_date = cutoff_date,
                !.stale_shards = stale_shards,
                !.to_remove = stale_shards,
                !.deleted_vectors = Cardinality(vector_metadata \ table),
                !.deleted_shards =
                    Cardinality((DOMAIN index_shards) \ (DOMAIN shards))]
    IN
    /\ pc[t] = "sweep_txn"
    /\ vector_metadata' = table
    /\ index_shards' = shards
    /\ assigned' = [d \in { e \in DOMAIN assigned : ~(e < cutoff_date) } |->
                        assigned[d]]
    /\ IF stale_shards = {}
       THEN /\ pc' = [pc EXCEPT ![t] = "return"]
            /\ frame' = [frame EXCEPT ![t] =
                  [k \in (DOMAIN f) \cup {"result"} |->
                      IF k = "result" THEN CleanupResult(f) ELSE f[k]]]
       ELSE /\ pc' = [pc EXCEPT ![t] = "sweep_files"]
            /\ frame' = [frame EXCEPT ![t] = f]
    /\ UNCHANGED <<today, lock, files, next_id, calls, last>>

\* delete_stale_data: one round of `for shard_date, index_path in stale_shards`
\* (the SELECT has no ORDER BY: any order); os.remove may raise, which ends
\* the call; after the last round the call returns
DeleteStaleFile(t) ==
    /\ pc[t] = "sweep_files"
    /\ \E shard \in frame[t].to_remove :
         LET rest == frame[t].to_remove \ {shard}
             f == [frame[t] EXCEPT !.to_remove = rest]
             done == [k \in (DOMAIN f) \cup {"result"} |->
                        IF k = "result" THEN CleanupResult(f) ELSE f[k]]
         IN
         \/ /\ files' = IF PathExists(files, shard.index_path)
                        THEN RemoveFile(files, shard.index_path)
                        ELSE files
            /\ IF rest = {}
               THEN /\ pc' = [pc EXCEPT ![t] = "return"]
                    /\ frame' = [frame EXCEPT ![t] = done]
               ELSE /\ pc' = pc
                    /\ frame' = [frame EXCEPT ![t] = f]
         \/ /\ PathExists(files, shard.index_path)
            /\ Return(t, Raise("OSError"))
            /\ UNCHANGED files
    /\ UNCHANGED <<today, lock, index_shards, vector_metadata, next_id, calls,
                   last, assigned>>

\* manual_cleanup (POST /cleanup) on a request thread
ManualCleanup(t) ==
    \/ \E retention_days \in RetentionChoices : CleanupEnter(t, retention_days)
    \/ DeleteStaleTxn(t)
    \/ DeleteStaleFile(t)

\* cleanup_job on the scheduler thread (the except clause only prints)
CleanupJob ==
    \/ CleanupEnter(Scheduler, DefaultRetention)
    \/ DeleteStaleTxn(Scheduler)
    \/ DeleteStaleFile(Scheduler)

\* the rows of a set in rowid order
RECURSIVE ByRowId(_)
ByRowId(rows) ==
    IF rows = {} THEN << >>
    ELSE LET first == CHOOSE r \in rows : \A o \in rows : r.id <= o.id
         IN  <<first>> \o ByRowId(rows \ {first})

\* get_vector_metadata: the selected columns of the selected rows
GetVectorMetadataAnyUser(table, user_id, vector_ids, shard_date) ==
    LET rows == ByRowId(SelectVectorMetadataAnyUser(table, user_id,
                    { vector_ids[i] : i \in 1..Len(vector_ids) }, shard_date))
    IN  [i \in 1..Len(rows) |->
            [vector_id |-> rows[i].vector_id,
             document_name |-> rows[i].document_name,
             page_number |-> rows[i].page_number,
             chunk_index |-> rows[i].chunk_index,
             page_content |-> rows[i].page_content]]

GetVectorMetadata(table, user_id, vector_ids, shard_date) ==
    LET rows == ByRowId(SelectVectorMetadata(table, user_id,
                    { vector_ids[i] : i \in 1..Len(vector_ids) }, shard_date))
    IN  [i \in 1..Len(rows) |->
            [vector_id |-> rows[i].vector_id,
             document_name |-> rows[i].document_name,
             page_number |-> rows[i].page_number,
             chunk_index |-> rows[i].chunk_index,
             page_content |-> rows[i].page_content]]

\* vector_ids.index(x): first position of x, counted from 1 here
ListIndex(list, x) ==
    CHOOSE i \in 1..Len(list) : list[i] = x /\ \A j \in 1..(i - 1) : list[j] # x

\* search_user_documents: what one shard adds to all_results
ShardResults(table, index, query_embedding, user_id, top_k, shard_date) ==
    LET found == IndexSearch(index, query_embedding, top_k * 3)
        vector_ids == [i \in 1..Len(found) |-> found[i].id]
        metadata_list == GetVectorMetadata(table, user_id, vector_ids,
                                           shard_date)
    IN  [i \in 1..Len(metadata_list) |->
            LET meta == metadata_list[i]
                distance == found[ListIndex(vector_ids, meta.vector_id)].distance
            IN  [vector_id |-> meta.vector_id,
                 document_name |-> meta.document_name,
                 page_number |-> meta.page_number,
                 chunk_index |-> meta.chunk_index,
                 page_content |-> meta.page_content,
                 distance |-> distance,
                 score |-> [num |-> 1, den |-> 1 + distance],
                 shard_date |-> shard_date]]

\* a.score > b.score, scores being fractions with positive denominators
ScoreGreater(a, b) == a.score.num * b.score.den > b.score.num * a.score.den

\* list.sort(key=score, reverse=True): stable, equal scores keep their order
RECURSIVE SortByScore(_)
SortByScore(results) ==
    IF results = << >> THEN << >>
    ELSE LET best == CHOOSE i \in 1..Len(results) :
                        /\ \A j \in 1..Len(results) :
                              ~ScoreGreater(results[j], results[i])
                        /\ \A j \in 1..(i - 1) :
                              ScoreGreater(results[i], results[j])
         IN  <<results[best]>> \o
                SortByScore(SubSeq(results, 1, best - 1) \o
                            SubSeq(results, best + 1, Len(results)))

\* all_results[:top_k]
Truncate(list, top_k) == SubSeq(list, 1, IF Len(list) < top_k THEN Len(list)
                                         ELSE top_k)

\* search_user_documents: the rounds of `for shard in active_shards` over
\* the shards from position i on; a shard without a file is skipped
RECURSIVE AllResults(_, _, _, _, _, _, _)
AllResults(table, fs, active_shards, i, query_embedding, user_id, top_k) ==
    IF i > Len(active_shards) THEN << >>
    ELSE LET shard == active_shards[i]
             here == IF PathExists(fs, shard.index_path)
                     THEN ShardResults(table, fs[shard.index_path].vectors,
                                       query_embedding, user_id, top_k,
                                       shard.shard_date)
                     ELSE << >>
         IN  here \o AllResults(table, fs, active_shards, i + 1,
                                query_embedding, user_id, top_k)

\* ------------------------------------------------------------ QueryEngine
\* _rerank_results: the divisor of int(shard_date), and the weights of the
\* similarity score and of the recency score in tenths
RecencyDivisor == 20300101
SimilarityWeight == 7
RecencyWeight == 3

\* a/b > c/d for a, c >= 0 and b, d > 0, by continued fractions (no product
\* of two of the numbers is formed)
RECURSIVE FractionGreater(_, _, _, _)
FractionGreater(a, b, c, d) ==
    IF a \div b # c \div d THEN a \div b > c \div d
    ELSE IF a % b = 0 THEN FALSE
    ELSE IF c % d = 0 THEN TRUE
    ELSE FractionGreater(d, c % d, b, a % b)

\* _rerank_results: recency_score = int(shard_date) / 20300101 and
\* final_score = 0.7 * score + 0.3 * recency_score, kept as its two terms
FinalScoreOlderFirst(result) ==
    [similarity |-> result.score,
     recency |-> [num |-> RecencyDivisor - result.shard_date,
                  den |-> RecencyDivisor]]

FinalScore(result) ==
    [similarity |-> result.score,
     recency |-> [num |-> result.shard_date, den |-> RecencyDivisor]]

\* a > b for two final scores:
\*   0.7 * (a.similarity - b.similarity) > 0.3 * (b.recency - a.recency)
FinalScoreGreater(a, b) ==
    LET lead == SimilarityWeight * (a.similarity.num * b.similarity.den
                                    - b.similarity.num * a.similarity.den)
        den == a.similarity.den * b.similarity.den
        lag == RecencyWeight * (b.recency.num - a.recency.num)
    IN  IF lead >= 0 /\ lag >= 0
        THEN FractionGreater(lead, den, lag, RecencyDivisor)
        ELSE IF lead < 0 /\ lag < 0
        THEN FractionGreater(-lag, RecencyDivisor, -lead, den)
        ELSE lead >= 0

\* list.sort(key=final_score, reverse=True): stable
RECURSIVE SortByFinalScore(_)
SortByFinalScore(results) ==
    IF results = << >> THEN << >>
    ELSE LET best == CHOOSE i \in 1..Len(results) :
                        /\ \A j \in 1..Len(results) :
                              ~FinalScoreGreater(results[j].final_score,
                                                 results[i].final_score)
                        /\ \A j \in 1..(i - 1) :
                              FinalScoreGreater(results[i].final_score,
                                                results[j].final_score)
         IN  <<results[best]>> \o
                SortByFinalScore(SubSeq(results, 1, best - 1) \o
                                 SubSeq(results, best + 1, Len(results)))

\* _rerank_results
RerankResults(results) ==
    SortByFinalScore(
        [i \in 1..Len(results) |->
            [vector_id |-> results[i].vector_id,
             document_name |-> results[i].document_name,
             page_number |-> results[i].page_number,
             chunk_index |-> results[i].chunk_index,
             page_content |-> results[i].page_content,
             distance |-> results[i].distance,
             score |-> results[i].score,
             shard_date |-> results[i].shard_date,
             final_score |-> FinalScore(results[i])]])

\* generate_response: the sources list
FormatSources(reranked_results) ==
    [i \in 1..Len(reranked_results) |->
        [source_number |-> i,
         document_name |-> reranked_results[i].document_name,
         page_number |-> reranked_results[i].page_number,
         chunk_preview |-> reranked_results[i].page_content,
         relevance_score |-> reranked_results[i].final_score]]

\* generate_response that asks the generator whatever the search returned
GenerateResponseAlways(search, generated) ==
    IF search.kind = "raise"
    THEN [kind |-> "raise", error |-> search.error, generator_called |-> FALSE]
    ELSE IF ~generated
    THEN [kind |-> "raise", error |-> "UpstreamError",
          generator_called |-> TRUE]
    ELSE [kind |-> "return", success |-> TRUE, answer |-> "generated",
          sources |-> FormatSources(RerankResults(search.results)),
          chunks_retrieved |-> Len(search.results),
          generator_called |-> TRUE]

\* generate_response after search_user_documents has returned or raised;
\* `generated` says whether chat.completions.create returns.  The field
\* generator_called is history.
GenerateResponse(search, generated) ==
    IF search.kind = "raise"
    THEN [kind |-> "raise", error |-> search.error, generator_called |-> FALSE]
    ELSE IF search.results = << >>
    THEN [kind |-> "return", success |-> FALSE, answer |-> "no documents",
          sources |-> << >>, chunks_retrieved |-> 0,
          generator_called |-> FALSE]
    ELSE IF ~generated
    THEN [kind |-> "raise", error |-> "UpstreamError",
          generator_called |-> TRUE]
    ELSE [kind |-> "return", success |-> TRUE, answer |-> "generated",
          sources |-> FormatSources(RerankResults(search.results)),
          chunks_retrieved |-> Len(search.results),
          generator_called |-> TRUE]

\* faiss.read_index raises on a file it cannot read
SomeShardUnreadable(fs, active_shards) ==
    \E i \in 1..Len(active_shards) :
       /\ PathExists(fs, active_shards[i].index_path)
       /\ ~fs[active_shards[i].index_path].readable

\* search_user_documents: `with self.lock` is entered
SearchEnter(t, user_id, query, top_k) ==
    /\ Starts(t)
    /\ LockIsFree
    /\ lock' = t
    /\ pc' = [pc EXCEPT ![t] = "search_embed"]
    /\ frame' = [frame EXCEPT ![t] =
          [op |-> "search", user_id |-> user_id, query |-> query,
           top_k |-> top_k, now |-> 0, active_shards |-> << >>]]
    /\ UNCHANGED <<today, files, index_shards, vector_metadata, next_id, calls,
                   last, assigned>>

\* search_user_documents: the query embedding, get_active_shards
\* (retention_days keeps its default, no caller passes it), the loop over the
\* shards, the sort and the return.  The loop reads the tables and the files
\* under the lock and nothing else, so it is one step.  The caller,
\* generate_response, then works on its own locals only: its reranked list
\* (the list get_relevant_chunks returns) and its response are taken in the
\* same step.
SearchRun(t) ==
    LET f == [frame[t] EXCEPT
                !.now = today,
                !.active_shards =
                    GetActiveShards(index_shards, today, DefaultRetention)]
        query_embedding == GetEmbeddings(<<f.query>>)[1]
        all_results == AllResults(vector_metadata, files, f.active_shards, 1,
                                  query_embedding, f.user_id, f.top_k)
        Finish(locals, result) ==
            /\ pc' = [pc EXCEPT ![t] = "return"]
            /\ \E generated \in BOOLEAN :
                  /\ generated \/ (result.kind = "return"
                                     /\ result.results # << >>)
                  /\ frame' = [frame EXCEPT ![t] =
                        [op |-> locals.op, user_id |-> locals.user_id,
                         query |-> locals.query, top_k |-> locals.top_k,
                         now |-> locals.now,
                         active_shards |-> locals.active_shards,
                         result |-> result,
                         reranked_results |->
                            IF result.kind = "return"
                            THEN RerankResults(result.results) ELSE << >>,
                         response |-> GenerateResponse(result, generated)]]
    IN
    /\ pc[t] = "search_embed"
    /\ \/ \* embeddings.create raises: get_active_shards is not reached
          Finish(frame[t], Raise("UpstreamError"))
       \/ /\ f.active_shards = << >>
          /\ Finish(f, [kind |-> "return", results |-> << >>])
       \/ /\ f.active_shards # << >>
          /\ SomeShardUnreadable(files, f.active_shards)
          /\ Finish(f, Raise("StorageError"))
       \/ /\ f.active_shards # << >>
          /\ ~SomeShardUnreadable(files, f.active_shards)
          /\ Finish(f, [kind |-> "return",
                        results |-> Truncate(SortByScore(all_results),
                                             f.top_k)])
    /\ UNCHANGED <<today, lock, files, index_shards, vector_metadata, next_id,
                   calls, last, assigned>>

SearchUserDocuments(t) ==
    \/ \E user_id \in Users, query \in Queries, top_k \in TopKChoices :
          SearchEnter(t, user_id, query, top_k)
    \/ SearchRun(t)

\* get_user_document_count: SELECT COUNT(*) FROM vector_metadata WHERE user_id
GetUserDocumentCountAnyUser(table, user_id) ==
    Cardinality(table)

GetUserDocumentCount(table, user_id) ==
    Cardinality({ r \in table : r.user_id = user_id })

\* get_user_stats: metadata_db.get_user_document_count; DocumentManager.lock
\* is not taken.  Statistics reads change nothing and so do not affect each
\* other: one is followed at a time.
StatsCount(t, user_id) ==
    /\ StartsUnlocked(t)
    /\ \A o \in Threads : frame[o].op # "stats"
    /\ pc' = [pc EXCEPT ![t] = "stats_shards"]
    /\ frame' = [frame EXCEPT ![t] =
          [op |-> "stats", user_id |-> user_id,
           total_chunks |-> GetUserDocumentCount(vector_metadata, user_id)]]
    /\ UNCHANGED <<today, lock, files, index_shards, vector_metadata, next_id,
                   calls, last, assigned>>

\* the dict get_user_stats returns
UserStats(f, shards, now) ==
    [kind |-> "return", user_id |-> f.user_id,
     total_chunks |-> f.total_chunks,
     active_shards |-> Len(GetActiveShards(shards, now, DefaultRetention)),
     retention_days |-> DefaultRetention]

\* get_user_stats: metadata_db.get_active_shards(3) and the return statement;
\* the caller has UserStats(frame[t], index_shards, today) and the thread is
\* idle again
StatsShards(t) ==
    /\ pc[t] = "stats_shards"
    /\ pc' = [pc EXCEPT ![t] = "idle"]
    /\ frame' = [frame EXCEPT ![t] = IdleFrame]
    /\ UNCHANGED <<today, lock, files, index_shards, vector_metadata, next_id,
                   calls, last, assigned>>

\* GET /user-stats on a request thread
GetUserStats(t) ==
    \/ \E user_id \in StatsUsers : StatsCount(t, user_id)
    \/ StatsShards(t)

\* the clock moves to the next day (nothing reads the clock between a return
\* statement and the release of the lock, so the tick is taken after Exit)
AdvanceDay ==
    /\ today < MaxDay
    /\ \A t \in Threads : pc[t] # "return"
    /\ today' = today + 1
    /\ UNCHANGED <<lock, pc, frame, files, index_shards, vector_metadata,
                   next_id, calls, last, assigned>>

\* a call that has started takes its next step: the library and system calls
\* it makes return, and the `with` block is left
Continue(t) ==
    \/ AddDocumentEmbed(t)
    \/ AddDocumentIndex(t)
    \/ AddDocumentSave(t)
    \/ DeleteStaleTxn(t)
    \/ DeleteStaleFile(t)
    \/ SearchRun(t)
    \/ StatsShards(t)
    \/ Exit(t)

\* ------------------------------------------------------------ vocabulary
\* thread t is at the return statement (or at the exception) of an `op` call
AtReturn(t, op) == pc[t] = "return" /\ frame[t].op = op

Returned(t, op) == AtReturn(t, op) /\ frame[t].result.kind = "return"

Raised(t, op) == AtReturn(t, op) /\ frame[t].result.kind = "raise"

\* the ids a shard's history holds, in the order they were written
RECURSIVE IdsWritten(_)
IdsWritten(entries) ==
    IF entries = << >> THEN << >>
    ELSE Head(entries).ids \o IdsWritten(Tail(entries))

\* the set of elements of a sequence
Range(seq) == { seq[i] : i \in 1..Len(seq) }

\* the ids the history says tenant user_id was given in shard_date
IdsOfTenant(user_id, shard_date) ==
    IF shard_date \in DOMAIN assigned
    THEN UNION { Range(assigned[shard_date][i].ids) :
                    i \in { j \in 1..Len(assigned[shard_date]) :
                              assigned[shard_date][j].user_id = user_id } }
    ELSE {}

\* every shard date the clock can have produced
ShardDates == { Strftime(o) : o \in 0..MaxDay }

\* the shard dates that have a row in vector_metadata or an id in the history
ShardsWithRows ==
    { r.shard_date : r \in vector_metadata } \cup DOMAIN assigned

\* the vector ids a lookup of a shard is asked for: those of the shard's rows,
\* of whatever tenant, and one id no row has
LookupIds(shard_date) ==
    LET present == { r.vector_id :
                        r \in { o \in vector_metadata :
                                  o.shard_date = shard_date } }
    IN  present \cup { Cardinality(present) }

\* ----------------------------------------------------------------- claims

\* C1: a call that adds n vectors to a shard holding c vectors writes the ids
\* c .. c+n-1, and over all calls the ids written to a shard are 0, 1, 2, ...
\* in order: they start at 0, leave no gap and repeat no id.
C1_IdsFillFromZero ==
    /\ \A t \in Threads :
          pc[t] = "add_save" =>
             LET f == frame[t]
                 path == GetIndexPath(f.shard_date)
                 c == IF PathExists(files, path)
                      THEN NTotal(files[path].vectors) ELSE 0
             IN  \A i \in 1..Len(f.vectors_data) :
                    f.vectors_data[i].vector_id = c + i - 1
    /\ \A d \in DOMAIN assigned :
          LET ids == IdsWritten(assigned[d])
          IN  \A k \in 1..Len(ids) : ids[k] = k - 1

\* C2: a lookup for a tenant returns exactly the requested ids that tenant
\* was given in that shard, and so never a row of another tenant, whatever
\* ids are requested.
C2_LookupTenantIsolation ==
    \A user_id \in Users, shard_date \in ShardsWithRows :
       LET own == IdsOfTenant(user_id, shard_date)
       IN  \A vector_ids \in SUBSET LookupIds(shard_date) :
              { r.vector_id : r \in SelectVectorMetadata(vector_metadata,
                                        user_id, vector_ids, shard_date) }
                 = vector_ids \cap own

\* C2 witness: a search of one tenant has looked up a shard in which the
\* other tenant holds rows too, and in which both tenants hold the same id
C2_Witness ==
    \E t \in Threads, d \in ShardDates :
       /\ Returned(t, "search")
       /\ frame[t].result.results # << >>
       /\ \A u \in Users : IdsOfTenant(u, d) # {}
       /\ \E u \in Users, v \in Users :
             u # v /\ IdsOfTenant(u, d) \cap IdsOfTenant(v, d) # {}

\* C3: no two rows of vector_metadata share (shard_date, vector_id).
C3_ShardVectorIdIsKey ==
    \A r \in vector_metadata, o \in vector_metadata :
       (r.shard_date = o.shard_date /\ r.vector_id = o.vector_id) => r = o

\* a sweep's transaction is the step that leaves "sweep_txn"
SweepCommits(t) == pc[t] = "sweep_txn" /\ pc'[t] # "sweep_txn"

\* C4: once delete_stale_data has committed with cutoff C, get_active_shards
\* (same day, same retention_days) returns exactly the rows registered before
\* the sweep with shard_date >= C, newest first, and neither table keeps a row
\* with shard_date < C.
C4_RetentionCorrect ==
    [][ \A t \in Threads :
          SweepCommits(t) =>
             LET r == frame[t].retention_days
                 C == CutoffDate(today, r)
                 active == GetActiveShards(index_shards', today, r)
             IN  /\ Range(active) =
                       { index_shards[d] :
                            d \in { e \in DOMAIN index_shards : e >= C } }
                 /\ \A i \in 1..Len(active), j \in 1..Len(active) :
                       i < j => active[i].shard_date > active[j].shard_date
                 /\ \A d \in DOMAIN index_shards' : ~(d < C)
                 /\ \A row \in vector_metadata' : ~(row.shard_date < C)
      ]_vars

\* C4 witness: a sweep has returned that removed a shard with its rows and
\* kept another one
C4_Witness ==
    \E t \in Threads :
       /\ Returned(t, "cleanup")
       /\ frame[t].result.deleted_shards >= 1
       /\ frame[t].result.deleted_vectors >= 1
       /\ DOMAIN index_shards # {}
       /\ vector_metadata # {}

\* the calendar days now-(n-1) .. now, as shard dates
RecentDays(now, n) == { Strftime(now - k) : k \in 0..(n - 1) }

\* C5 as stated: after a sweep on day D with retentionDays = r the registry
\* holds only shards of the r most recent days ending at D, so at most r.
C5_WindowOfRetentionDays ==
    \A t \in Threads :
       (pc[t] \in {"sweep_files", "return"} /\ frame[t].op = "cleanup"
          /\ (pc[t] = "return" => frame[t].result.kind = "return")) =>
          /\ DOMAIN index_shards
                \subseteq RecentDays(frame[t].now, frame[t].retention_days)
          /\ Cardinality(DOMAIN index_shards) <= frame[t].retention_days

\* C5 amended: the shards that survive a sweep on day D with retentionDays = r
\* are exactly the registered shards of the r+1 most recent days D-r .. D, so
\* at most r+1 shard dates stay online.
C5_WindowOfRetentionDaysPlusOne ==
    [][ \A t \in Threads :
          SweepCommits(t) =>
             LET r == frame[t].retention_days
             IN  /\ DOMAIN index_shards' =
                       (DOMAIN index_shards) \cap RecentDays(today, r + 1)
                 /\ Cardinality(DOMAIN index_shards') <= r + 1
      ]_vars

\* C5 witness: a sweep has returned and r+1 shard dates are online, the
\* oldest of them exactly r days old
C5_Witness ==
    \E t \in Threads :
       /\ Returned(t, "cleanup")
       /\ Cardinality(DOMAIN index_shards) = frame[t].retention_days + 1
       /\ Strftime(frame[t].now - frame[t].retention_days)
             \in DOMAIN index_shards

\* C6: a sweep that finds no registered shard below its cutoff deletes no
\* metadata row and no registry row, reports zero counts and changes neither
\* table nor any index file; and no sweep leaves a shard below its cutoff, so
\* a second sweep on the same day is such a sweep.
C6_SweepIdempotent ==
    [][ \A t \in Threads :
          SweepCommits(t) =>
             LET C == CutoffDate(today, frame[t].retention_days)
             IN  /\ StaleShards(index_shards', C) = {}
                 /\ StaleShards(index_shards, C) = {} =>
                       /\ vector_metadata' = vector_metadata
                       /\ index_shards' = index_shards
                       /\ files' = files
                       /\ pc'[t] = "return"
                       /\ frame'[t].result =
                             [kind |-> "return", deleted_vectors |-> 0,
                              deleted_shards |-> 0, deleted_files |-> 0]
      ]_vars

\* C6 witness: a sweep has returned zero counts while shards and rows exist
C6_Witness ==
    \E t \in Threads :
       /\ Returned(t, "cleanup")
       /\ frame[t].result.deleted_vectors = 0
       /\ frame[t].result.deleted_shards = 0
       /\ frame[t].result.deleted_files = 0
       /\ DOMAIN index_shards # {}
       /\ vector_metadata # {}

\* C7: when add_document ends with an exception, vector_metadata is the table
\* it was when the call began.
C7_FailedIngestionCommitsNothing ==
    \A t \in Threads :
       Raised(t, "add") => vector_metadata = frame[t].table_before

\* C8: after a persist failure that left the index file as it was, a retry
\* with the same input that succeeds leaves the upload's chunks stored once:
\* the shard holds the upload's rows of before the failed call plus one row
\* per chunk, and as many rows as the index file holds vectors.
C8_RetryAfterFailedPersist ==
    \A t \in Threads :
       (/\ Returned(t, "add")
        /\ frame[t].result.success
        /\ frame[t].retry_of.outcome = "persist_failed"
        /\ ~frame[t].retry_of.truncated
        /\ frame[t].retry_of.shard_date = frame[t].shard_date) =>
          LET f == frame[t]
          IN  /\ Cardinality(UploadRows(vector_metadata, f.user_id,
                                        f.document_name, f.shard_date))
                    = f.retry_of.pre_rows + Len(f.chunks)
              /\ Cardinality({ r \in vector_metadata :
                                  r.shard_date = f.shard_date })
                    = NTotal(files[GetIndexPath(f.shard_date)].vectors)

\* the positions of a sweep, and those of an ingestion or a search
InSweep(t) == pc[t] \in {"sweep_txn", "sweep_files"}
InAddOrSearch(t) ==
    pc[t] \in {"add_embed", "add_index", "add_save", "search_embed"}

\* C9: no sweep, started by the scheduler or by a request, is between its
\* first and last step while an ingestion or a search is between its own:
\* whoever is inside holds the lock, and nobody else is inside.
C9_SweepNeverInterleaves ==
    \A t \in Threads, o \in Threads :
       /\ (InSweep(t) /\ InAddOrSearch(o)) => t = o
       /\ (InSweep(t) \/ InAddOrSearch(t)) => lock = t

\* C9 witness: the scheduler's sweep is removing the files of a shard that
\* ingestions had filled
C9_Witness ==
    /\ pc[Scheduler] = "sweep_files"
    /\ frame[Scheduler].deleted_vectors >= 1
    /\ \A t \in RequestThreads : pc[t] = "idle"

\* C10: within a shard every call's ids are one contiguous range, ranges of
\* different calls are disjoint, and they follow the order in which the calls
\* took the lock.
C10_RangesDisjointInLockOrder ==
    \A d \in DOMAIN assigned :
       LET entries == assigned[d]
       IN  /\ \A i \in 1..Len(entries) :
                 \A k \in 1..Len(entries[i].ids) :
                    entries[i].ids[k] = entries[i].ids[1] + k - 1
           /\ \A i \in 1..Len(entries), j \in 1..Len(entries) :
                 i < j =>
                    /\ entries[i].seq < entries[j].seq
                    /\ \A a \in Range(entries[i].ids),
                          b \in Range(entries[j].ids) : a < b

\* the candidates a search gathered: all_results before the sort, computed
\* again from the tables and files the search read (it still holds the lock)
Candidates(t) ==
    AllResults(vector_metadata, files, frame[t].active_shards, 1,
               GetEmbeddings(<<frame[t].query>>)[1], frame[t].user_id,
               frame[t].top_k)

\* a reranked result without its final_score: the candidate it was
AsCandidate(r) ==
    [vector_id |-> r.vector_id, document_name |-> r.document_name,
     page_number |-> r.page_number, chunk_index |-> r.chunk_index,
     page_content |-> r.page_content, distance |-> r.distance,
     score |-> r.score, shard_date |-> r.shard_date]

\* C11: the reranked list of a query holds at most top_k results, in
\* descending order of final score, and no candidate gathered from the active
\* shards and left out of the list has a strictly higher final score than a
\* result in the list.
C11_TopKByFinalScore ==
    \A t \in Threads :
       Returned(t, "search") =>
          LET ranked == frame[t].reranked_results
              kept == { AsCandidate(ranked[i]) : i \in 1..Len(ranked) }
          IN  /\ Len(ranked) <= frame[t].top_k
              /\ \A i \in 1..Len(ranked), j \in 1..Len(ranked) :
                    i < j => ~FinalScoreGreater(ranked[j].final_score,
                                                ranked[i].final_score)
              /\ \A c \in Range(Candidates(t)) \ kept :
                    \A i \in 1..Len(ranked) :
                       ~FinalScoreGreater(FinalScore(c), ranked[i].final_score)

\* the search of thread t got its query embedding
Embedded(t) ==
    ~(frame[t].result.kind = "raise"
      /\ frame[t].result.error = "UpstreamError")

\* the rows of tenant user_id in shard_date
RowsOfTenant(user_id, shard_date) ==
    { r \in vector_metadata : r.user_id = user_id /\ r.shard_date = shard_date }

\* C12: every result of a search for a tenant, in the list the store returns
\* and in the reranked list, is a row that tenant ingested into the shard the
\* result names, and a search raises only when the embedding call fails or
\* an index file cannot be read, never because of another tenant's ids.
C12_ResultsBelongToTenant ==
    \A t \in Threads :
       /\ Returned(t, "search") =>
             \A r \in Range(frame[t].result.results)
                      \cup { AsCandidate(frame[t].reranked_results[i]) :
                               i \in 1..Len(frame[t].reranked_results) } :
                /\ r.vector_id \in IdsOfTenant(frame[t].user_id, r.shard_date)
                /\ \E row \in RowsOfTenant(frame[t].user_id, r.shard_date) :
                      /\ row.vector_id = r.vector_id
                      /\ row.document_name = r.document_name
                      /\ row.chunk_index = r.chunk_index
                      /\ row.page_content = r.page_content
       /\ Raised(t, "search") =>
             \/ ~Embedded(t)
             \/ SomeShardUnreadable(files, frame[t].active_shards)

\* C12 witness: a search returned results from a shard whose index also holds
\* vectors of another tenant
C12_Witness ==
    \E t \in Threads :
       /\ Returned(t, "search")
       /\ \E r \in Range(frame[t].result.results), u \in Users :
             /\ u # frame[t].user_id
             /\ RowsOfTenant(u, r.shard_date) # {}
             /\ IdsOfTenant(u, r.shard_date)
                   \cap IdsOfTenant(frame[t].user_id, r.shard_date) = {}

\* C13: a lookup returns exactly the tenant's rows of the requested shard
\* with a requested id, and never a row of another shard, also when the
\* tenant holds the same vector_id in another shard.
C13_LookupShardScoped ==
    \A user_id \in Users, shard_date \in ShardsWithRows :
       \A vector_ids \in SUBSET LookupIds(shard_date) :
          LET rows == SelectVectorMetadata(vector_metadata, user_id,
                                           vector_ids, shard_date)
          IN  /\ \A r \in rows : r.shard_date = shard_date
              /\ rows = { r \in RowsOfTenant(user_id, shard_date) :
                             r.vector_id \in vector_ids }

\* C13 witness: a search returned results for a tenant who holds the same
\* vector_id in two active shards
C13_Witness ==
    \E t \in Threads :
       /\ Returned(t, "search")
       /\ frame[t].result.results # << >>
       /\ \E i \in 1..Len(frame[t].active_shards),
             j \in 1..Len(frame[t].active_shards) :
             /\ i # j
             /\ { r.vector_id : r \in RowsOfTenant(frame[t].user_id,
                                    frame[t].active_shards[i].shard_date) }
                   \cap
                { r.vector_id : r \in RowsOfTenant(frame[t].user_id,
                                    frame[t].active_shards[j].shard_date) }
                   # {}

\* the response that tells the caller there is nothing to search
NoDocuments(response) ==
    /\ response.kind = "return"
    /\ ~response.success
    /\ response.sources = << >>

\* C14: a query whose embedding call fails, or that finds no active shard,
\* ends with an empty or apologetic response and raises nothing.
C14_QueryFailuresDegrade ==
    \A t \in Threads :
       (AtReturn(t, "search")
          /\ (~Embedded(t) \/ frame[t].active_shards = << >>)) =>
          NoDocuments(frame[t].response)

LoadFailed(t) ==
    /\ pc[t] = "return"
    /\ frame[t].op \in {"add", "search"}
    /\ frame[t].result.kind = "raise"
    /\ frame[t].result.error = "StorageError"
    /\ "at" \notin DOMAIN frame[t].result

\* C16: an ingestion or a search that meets a missing or unreadable index
\* file goes on as with an empty shard: no call ends with a load failure, and
\* an ingestion into a shard whose file is missing or unreadable numbers its
\* vectors from 0.
C16_UnreadableShardIsEmpty ==
    \A t \in Threads :
       /\ ~LoadFailed(t)
       /\ pc[t] = "add_save" =>
             LET path == GetIndexPath(frame[t].shard_date)
             IN  (~PathExists(files, path) \/ ~files[path].readable) =>
                    NTotal(frame[t].index) = Len(frame[t].chunks)

\* an ingestion or a sweep is between its first step and the release of the
\* lock
Mutating == \E t \in Threads : frame[t].op \in {"add", "cleanup"}

\* C17: while no ingestion and no sweep is in progress, every registry row
\* has its index file on disk and every index file on disk is the file of a
\* registry row.
C17_RegistryMatchesFiles ==
    ~Mutating =>
       /\ \A d \in DOMAIN index_shards :
             PathExists(files, index_shards[d].index_path)
       /\ \A path \in DOMAIN files :
             \E d \in DOMAIN index_shards : index_shards[d].index_path = path

\* C18: while no ingestion (and no sweep) is in progress, every vector of
\* every index file on disk has exactly one row in vector_metadata with the
\* file's shard_date and the vector's id.
C18_OneRowPerVector ==
    ~Mutating =>
       \A path \in DOMAIN files :
          \A vector_id \in 0..(NTotal(files[path].vectors) - 1) :
             Cardinality({ r \in vector_metadata :
                             /\ r.shard_date = path.shard
                             /\ r.vector_id = vector_id }) = 1

\* C19: a sweep always returns its counts, also when an index file cannot be
\* removed: it raises nothing, has gone through every stale file, and the
\* rows below its cutoff stay deleted.
C19_FileDeletionNonFatal ==
    \A t \in Threads :
       AtReturn(t, "cleanup") =>
          /\ frame[t].result.kind = "return"
          /\ frame[t].to_remove = {}
          /\ \A d \in DOMAIN index_shards : ~(d < frame[t].cutoff_date)
          /\ \A r \in vector_metadata : ~(r.shard_date < frame[t].cutoff_date)

\* a thread is inside a store operation: ingestion, search, sweep or the
\* statistics read
InStore(t) == pc[t] \notin {"idle", "return"}

\* C20: whoever is inside a store operation holds DocumentManager.lock, and
\* no statistics read has counted the rows of an ingestion that has
\* committed them and not yet persisted its index.
C20_AllPathsUnderStoreLock ==
    \A t \in Threads :
       /\ InStore(t) => lock = t
       /\ pc[t] = "stats_shards" =>
             \A o \in Threads :
                (pc[o] = "add_save" /\ frame[o].user_id = frame[t].user_id) =>
                   frame[t].total_chunks
                      = GetUserDocumentCount(frame[o].table_before,
                                             frame[t].user_id)

\* C21: the final score does not decrease when the similarity score grows
\* and the shard is the same, nor when the shard is newer and the similarity
\* score is the same; so of two results of equal similarity the one of the
\* older shard never stands above the one of the newer shard with a strictly
\* greater final score.
C21_BlendedScoreMonotone ==
    \A t \in Threads :
       Returned(t, "search") =>
          LET ranked == frame[t].reranked_results
          IN  /\ \A a \in Range(Candidates(t)), b \in Range(Candidates(t)) :
                    /\ (a.shard_date = b.shard_date /\ ~ScoreGreater(b, a)) =>
                          ~FinalScoreGreater(FinalScore(b), FinalScore(a))
                    /\ (a.score = b.score /\ a.shard_date >= b.shard_date) =>
                          ~FinalScoreGreater(FinalScore(b), FinalScore(a))
              /\ \A i \in 1..Len(ranked), j \in 1..Len(ranked) :
                    (/\ i < j
                     /\ ranked[i].score = ranked[j].score
                     /\ ranked[i].shard_date < ranked[j].shard_date) =>
                       ~FinalScoreGreater(ranked[i].final_score,
                                          ranked[j].final_score)

\* C21 witness: a reranked list holds two results of equal similarity from
\* two shards, and two of different similarity from one shard
C21_Witness ==
    \E t \in Threads :
       /\ Returned(t, "search")
       /\ \E i \in 1..Len(frame[t].reranked_results),
             j \in 1..Len(frame[t].reranked_results) :
             /\ frame[t].reranked_results[i].score
                   = frame[t].reranked_results[j].score
             /\ frame[t].reranked_results[i].shard_date
                   # frame[t].reranked_results[j].shard_date
       /\ \E a \in Range(Candidates(t)), b \in Range(Candidates(t)) :
             a.shard_date = b.shard_date /\ ScoreGreater(a, b)

\* C22: in every shard a search went through, index.search(q, k) gives at
\* most k ids, in strictly ascending order of distance, each the id of a
\* vector stored in that shard, also when the shard holds fewer than k.
C22_SearchReturnsStoredIds ==
    \A t \in Threads :
       Returned(t, "search") =>
          \A s \in 1..Len(frame[t].active_shards) :
             LET path == frame[t].active_shards[s].index_path
                 k == frame[t].top_k * 3
             IN  PathExists(files, path) =>
                    LET index == files[path].vectors
                        found == IndexSearch(index,
                                    GetEmbeddings(<<frame[t].query>>)[1], k)
                    IN  /\ Len(found) <= k
                        /\ \A i \in 1..Len(found), j \in 1..Len(found) :
                              i < j => found[i].distance < found[j].distance
                        /\ \A i \in 1..Len(found) :
                              found[i].id \in 0..(NTotal(index) - 1)

\* C23: no step changes a row of vector_metadata, and a row disappears only
\* in the transaction of a sweep, which drops the row's shard from the
\* registry with it: ingestion, search, lookup, shard registration and the
\* statistics reads keep every row that exists.
C23_RowsOnlyDroppedBySweep ==
    [][ /\ \A r \in vector_metadata, o \in vector_metadata' :
              r.id = o.id => r = o
        /\ \A r \in vector_metadata \ vector_metadata' :
              \E t \in Threads :
                 /\ SweepCommits(t)
                 /\ r.shard_date < CutoffDate(today, frame[t].retention_days)
                 /\ r.shard_date \notin DOMAIN index_shards'
      ]_vars

\* C23 witness: an ingestion has added its rows to a shard that held rows
\* with the same vector ids, and those rows are still there
C23_Witness ==
    \E t \in Threads :
       /\ pc[t] = "add_save"
       /\ frame[t].table_before \subseteq vector_metadata
       /\ \E r \in frame[t].table_before :
             /\ r.shard_date = frame[t].shard_date
             /\ \E i \in 1..Len(frame[t].vectors_data) :
                   r.vector_id = frame[t].vectors_data[i].vector_id

\* the statistics read of thread t takes its count in this step
StatsCounts(t) == pc[t] # "stats_shards" /\ pc'[t] = "stats_shards"

\* the rows of tenant user_id, added up shard by shard over `dates`
RECURSIVE CountAcross(_, _)
CountAcross(user_id, dates) ==
    IF dates = {} THEN 0
    ELSE LET d == CHOOSE e \in dates : TRUE
         IN  Cardinality(RowsOfTenant(user_id, d))
                + CountAcross(user_id, dates \ {d})

RowsOfShard(shard_date) ==
    { r \in vector_metadata : r.shard_date = shard_date }

\* C25: when an ingestion returns successfully, the registry row of its shard
\* has a vector_count equal to the number of vectors in the index file on
\* disk, which is the count the call found plus its number of chunks, and
\* equal to the number of rows of that shard in vector_metadata.
C25_CountsAgreeAfterIngestion ==
    \A t \in Threads :
       (Returned(t, "add") /\ frame[t].result.success) =>
          LET f == frame[t]
              path == GetIndexPath(f.shard_date)
              current_count == f.vectors_data[1].vector_id
          IN  /\ f.shard_date \in DOMAIN index_shards
              /\ PathExists(files, path)
              /\ index_shards[f.shard_date].vector_count
                    = NTotal(files[path].vectors)
              /\ NTotal(files[path].vectors) = current_count + Len(f.chunks)
              /\ index_shards[f.shard_date].vector_count
                    = Cardinality(RowsOfShard(f.shard_date))

\* C26: a search goes through the shards that are active on the day of the
\* query and no other: none of its results, in the list the store returns or
\* in the reranked list, comes from a shard dated below today - retention_days
\* (3, the default), also when that shard's rows and file still exist.
C26_SearchOnlyActiveShards ==
    \A t \in Threads :
       Returned(t, "search") =>
          LET cutoff_date == CutoffDate(frame[t].now, DefaultRetention)
          IN  /\ frame[t].now = today
              /\ \A i \in 1..Len(frame[t].active_shards) :
                    frame[t].active_shards[i].shard_date >= cutoff_date
              /\ \A r \in Range(frame[t].result.results)
                          \cup Range(frame[t].reranked_results) :
                    r.shard_date >= cutoff_date

\* C26 witness: a search returned results while the tenant still has rows,
\* a registry row and an index file in a shard below the cutoff
C26_Witness ==
    \E t \in Threads :
       /\ Returned(t, "search")
       /\ frame[t].result.results # << >>
       /\ \E r \in vector_metadata :
             /\ r.user_id = frame[t].user_id
             /\ r.shard_date < CutoffDate(frame[t].now, DefaultRetention)
             /\ r.shard_date \in DOMAIN index_shards
             /\ PathExists(files, GetIndexPath(r.shard_date))
             /\ files[GetIndexPath(r.shard_date)].readable

\* thread t takes a step of add_document
IngestionStep(t) ==
    pc[t] \in {"add_embed", "add_index", "add_save"} /\ pc'[t] # pc[t]

\* C27: an ingestion reads the date once, D, when it picks its shard; every
\* row it inserts has shard_date D, and none of its steps changes the index
\* file, the registry row or the metadata rows of a shard other than D.
C27_IngestionTouchesOnlyItsShard ==
    [][ \A t \in Threads :
          IngestionStep(t) =>
             LET D == IF pc[t] = "add_save" THEN frame[t].shard_date
                      ELSE Strftime(today)
             IN  /\ pc[t] = "add_index" /\ pc'[t] = "add_save" =>
                       /\ frame'[t].shard_date = D
                       /\ Cardinality(vector_metadata' \ vector_metadata)
                             = Len(frame[t].chunks)
                 /\ \A r \in vector_metadata' \ vector_metadata :
                       r.shard_date = D
                 /\ \A r \in vector_metadata \ vector_metadata' :
                       r.shard_date = D
                 /\ \A d \in ((DOMAIN index_shards) \cup (DOMAIN index_shards'))
                               \ {D} :
                       /\ d \in (DOMAIN index_shards) \cap (DOMAIN index_shards')
                       /\ index_shards'[d] = index_shards[d]
                 /\ \A path \in ((DOMAIN files) \cup (DOMAIN files'))
                                  \ {GetIndexPath(D)} :
                       /\ path \in (DOMAIN files) \cap (DOMAIN files')
                       /\ files'[path] = files[path]
      ]_vars

\* C27 witness: an ingestion has returned successfully while an older shard
\* with its file, registry row and rows is online
C27_Witness ==
    \E t \in Threads :
       /\ Returned(t, "add")
       /\ frame[t].result.success
       /\ \E d \in DOMAIN index_shards :
             /\ d < frame[t].shard_date
             /\ PathExists(files, GetIndexPath(d))
             /\ RowsOfShard(d) # {}

\* C28: an ingestion whose text gives no chunks returns success False with
\* chunks_processed 0; it never reaches the embedding call (it cannot end
\* with the embedding's error) nor the steps after it, and while it runs no
\* shard is registered, no metadata row inserted and no index file written.
C28_NoChunksChangesNothing ==
    [][ \A t \in Threads :
          (frame[t].op = "add" /\ frame[t].chunks = << >>) =>
             /\ pc[t] \in {"add_embed", "return"}
             /\ pc[t] = "return" =>
                   frame[t].result = [kind |-> "return", success |-> FALSE,
                                      chunks_processed |-> 0]
             /\ UNCHANGED <<files, index_shards, vector_metadata, next_id>>
      ]_vars

\* C28 witness: an ingestion of a text without chunks has returned its
\* failure result
C28_Witness ==
    \E t \in Threads :
       /\ Returned(t, "add")
       /\ frame[t].chunks = << >>
       /\ ~frame[t].result.success
       /\ frame[t].result.chunks_processed = 0

HoldsLock(t) == frame[t].op \in {"add", "search", "cleanup"}

\* every operation leaves its `with self.lock` block on return and on every
\* exception, and whoever holds the lock can take its next step
LocksReleased ==
    \A t \in Threads :
       /\ lock = t <=> HoldsLock(t)
       /\ lock = t => ENABLED Continue(t)

\* C30 as stated: every lock taken is released on return and on every failure
\* path, no state is a deadlock, and a caller that waits for the lock (the
\* scheduler's job, due every day) gets it in the end.
C30_WaitingCallerAcquires ==
    /\ []LocksReleased
    /\ pc[Scheduler] = "idle" ~> lock = Scheduler

\* C30 amended: every lock taken is released on return and on every failure
\* path, no state is a deadlock, and a lock that is held is free again in the
\* end, so that a waiting caller finds it free again and again.
C30_HeldLockEventuallyFree ==
    /\ []LocksReleased
    /\ \A t \in Threads : lock = t ~> lock = NoThread

\* C30 witness: an ingestion ended with a storage error, and the scheduler's
\* sweep holds the lock after it
C30_Witness ==
    /\ last.outcome = "persist_failed"
    /\ lock = Scheduler
    /\ pc[Scheduler] = "sweep_txn"

Next ==
    \/ AdvanceDay
    \/ \E t \in RequestThreads : AddDocument(t)
    \/ \E t \in RequestThreads : ManualCleanup(t)
    \/ CleanupJob
    \/ \E t \in RequestThreads : SearchUserDocuments(t)
    \/ \E t \in RequestThreads : GetUserStats(t)
    \/ \E t \in Threads : Exit(t)

Spec == Init /\ [][Next]_vars

\* scheduler.add_job(cleanup_job, 'cron', hour=2, minute=0): the job fires
\* every day and its thread, blocked on DocumentManager.lock, gets the lock
\* at one of the times it is released
CronFires == CleanupEnter(Scheduler, DefaultRetention)

FairSpec ==
    /\ Init
    /\ [][Next]_vars
    /\ \A t \in Threads : WF_vars(Continue(t))
    /\ SF_vars(CronFires)

\* what threading.Lock gives without more: a thread blocked in acquire gets
\* the lock if the lock stays free, and which of the threads that want a
\* lock gets it when it is released is not defined
ProgressSpec ==
    /\ Init
    /\ [][Next]_vars
    /\ \A t \in Threads : WF_vars(Continue(t))
    /\ WF_vars(CronFires)
====
